---- MODULE Spec2Model ----
(***************************************************************************)
(* Model of the lexibase clustering-and-categorization pipeline            *)
(* (src/core/clustring.py), of the category propagation and the store      *)
(* operations (src/core/qdrant_client.py) and of the HTTP service          *)
(* (src/apis/routes_words.py).                                             *)
(*                                                                         *)
(* Strings are sequences of one-character strings, a Python dict is a      *)
(* sequence of [key, val] records in insertion order, an optional value is *)
(* <<>> (None) or <<v>>, and a 384-dimensional embedding is one integer    *)
(* coordinate (the Euclidean norm becomes an absolute difference).         *)
(***************************************************************************)
EXTENDS Integers, Sequences, FiniteSets, TLC

VARIABLES
    pc,                    \* position of the running job
    words,                 \* clustring.py main: words (fetched)
    vectors,               \* clustring.py main: vectors (fetched)
    clusters,              \* cluster_all_words: clusters (dict label -> members)
    categorized_clusters,  \* assign_category_names_with_llm: categorized_clusters
    cluster_pos,           \* assign_category_names_with_llm: position of the for loop
    top_words,             \* assign_category_names_with_llm: top_words of the current cluster
    attempt,               \* generate_cluster_title_with_avalai: attempt
    responses,             \* history: the responses the current titling call received
    sleeps,                \* history: the time.sleep(2) calls of the current titling call
    titles,                \* history: the titles returned so far, in cluster order
    store,                 \* the records of the Qdrant collection, in scroll order
    stats,                 \* update_words_with_categories: stats
    cat_pos,               \* update_words_with_categories: position of the outer loop
    word_pos,              \* update_words_with_categories: position of the inner loop
    run,                   \* history: which consecutive propagation run this is
    fault_log,             \* history: per run, the outcome of each word's backend calls
    first_run,             \* history: store and stats when the first run returned
    snapshot_file,         \* save_clusters: the content of word_categories.json
    request,               \* routes_words.py: the request a handler was called with
    response,              \* routes_words.py: what the handler gave its caller
    calls,                 \* history: the embedding and store calls of that handler
    point_id,              \* update_words_with_categories: point.id, between scroll and set_payload
    offset,                \* fetch_all_words_from_qdrant: offset
    batch_size             \* fetch_all_words_from_qdrant: batch_size

vars == <<pc, words, vectors, clusters, categorized_clusters, cluster_pos,
          top_words, attempt, responses, sleeps, titles,
          store, stats, cat_pos, word_pos, run, fault_log, first_run,
          snapshot_file, request, response, calls,
          point_id, offset, batch_size>>

pipeline_vars == <<words, vectors, clusters, categorized_clusters, cluster_pos,
                   top_words, attempt, responses, sleeps, titles>>

propagate_vars == <<store, stats, cat_pos, word_pos, run, fault_log, first_run>>

service_vars == <<snapshot_file, request, response, calls>>

scan_vars == <<point_id, offset, batch_size>>

(***************************************************************************)
(* Bounds of the model and constants of the program.                       *)
(***************************************************************************)
MaxWords == 3          \* size of the fetched population
NumClusters == 2       \* main: num_clusters (50 in the source, scaled down)
MaxRetries == 3        \* generate_cluster_title_with_avalai: max_retries=3
TopN == 3              \* main: top_n=45, scaled down
RepresentativeN == 1   \* top_words[:15], scaled down
SampleN == 2           \* words_data[:30], scaled down
FallbackWords == 3     \* the fallback reads representative_words[0], [1], [2]
MaxRecords == 2        \* records in the store of a propagation run
MaxSnapWords == 3      \* words over all entries of a propagated snapshot
MaxListed == 3         \* records in the store of a statistics request
MaxRunWords == 2       \* words over all entries of the snapshot of an interleaved run
MaxBatch == 3          \* batch_size of a fetch
MaxFaults == 1         \* backend calls that raise during one propagation run

None == <<>>
Some(x) == <<x>>

Min(a, b) == IF a <= b THEN a ELSE b
Abs(x) == IF x < 0 THEN -x ELSE x

\* Python's s[:n]
Take(s, n) == SubSeq(s, 1, Min(n, Len(s)))

RECURSIVE SumSeq(_)
SumSeq(s) == IF s = <<>> THEN 0 ELSE Head(s) + SumSeq(Tail(s))

RECURSIVE Flatten(_)
Flatten(ss) == IF ss = <<>> THEN <<>> ELSE Head(ss) \o Flatten(Tail(ss))

\* the number of positions of s that hold x
Count(s, x) == Cardinality({i \in 1..Len(s) : s[i] = x})

(***************************************************************************)
(* Python dict: insertion-ordered; assigning to an existing key replaces   *)
(* the value and keeps the key's position.                                 *)
(***************************************************************************)
DictHas(d, k) == \E i \in 1..Len(d) : d[i].key = k
DictIndex(d, k) == CHOOSE i \in 1..Len(d) : d[i].key = k
DictGet(d, k) == d[DictIndex(d, k)].val
DictSet(d, k, v) ==
    IF DictHas(d, k)
    THEN [d EXCEPT ![DictIndex(d, k)] = [key |-> k, val |-> v]]
    ELSE Append(d, [key |-> k, val |-> v])

(***************************************************************************)
(* Characters and strings.                                                 *)
(***************************************************************************)
AlnumChars == {"a", "b", "c", "d", "C", "l", "u", "s", "t", "e", "r", "1", "2"}
WhitespaceChars == {" "}

\* str.isalnum() of one character
IsAlnum(c) == c \in AlnumChars

RECURSIVE LStrip(_)
LStrip(s) ==
    IF s # <<>> /\ Head(s) \in WhitespaceChars THEN LStrip(Tail(s)) ELSE s

RECURSIVE RStrip(_)
RStrip(s) ==
    IF s # <<>> /\ s[Len(s)] \in WhitespaceChars
    THEN RStrip(SubSeq(s, 1, Len(s) - 1))
    ELSE s

\* str.strip()
Strip(s) == RStrip(LStrip(s))

\* str.replace(old, new) for one-character old and new
Replace(s, old, new) == [i \in 1..Len(s) |-> IF s[i] = old THEN new ELSE s[i]]

\* ''.join(c for c in title if c.isalnum() or c == '_')
KeepAllowed(s) == SelectSeq(s, LAMBDA c : IsAlnum(c) \/ c = "_")

\* lines 129-132: the title of a success response
SanitizeTitle(content) == KeepAllowed(Replace(Strip(content), " ", "_"))

\* line 146: f"Cluster_{w[0]}_{w[1]}_{w[2]}"
FallbackTitle(representative_words) ==
    <<"C", "l", "u", "s", "t", "e", "r", "_">>
        \o representative_words[1] \o <<"_">>
        \o representative_words[2] \o <<"_">>
        \o representative_words[3]

(***************************************************************************)
(* cluster_all_words (clustring.py 55-81).  MiniBatchKMeans is a library:  *)
(* fit_predict returns some label per input and cluster_centers_ some      *)
(* centre per label; both are inputs of the model.                         *)
(***************************************************************************)
WordSet == {<<"a", "b">>, <<"c", "-">>}
Coords == {0, 1, 2}
Labels == 0..(NumClusters - 1)

\* add_words (routes_words.py 15): the stored vector is get_vector(word).  The
\* embedding model is a library; here it is one fixed function of the text.
get_vector(text) == IF text = <<"a", "b">> THEN 0 ELSE 2

\* line 74: float(np.linalg.norm(vectors[idx] - kmeans.cluster_centers_[label]))
Distance(vector, centre) == Abs(vector - centre)

AddMemberOverwrite(cl, label, member) == DictSet(cl, label, <<member>>)

\* lines 70-75: if label not in clusters: clusters[label] = []; clusters[label].append(...)
AddMember(cl, label, member) ==
    IF DictHas(cl, label)
    THEN DictSet(cl, label, Append(DictGet(cl, label), member))
    ELSE DictSet(cl, label, <<member>>)

\* lines 69-75, the first k iterations.  idx is the input position, which the
\* code's member dict does not hold: it is kept to tell equal words apart.
RECURSIVE GroupByLabel(_, _, _, _, _)
GroupByLabel(ws, vs, labels, centres, k) ==
    IF k = 0 THEN <<>>
    ELSE AddMember(GroupByLabel(ws, vs, labels, centres, k - 1), labels[k],
                   [idx |-> k, word |-> ws[k],
                    distance |-> Distance(vs[k], centres[labels[k]])])

\* the place of m in a list sorted by distance: after every member that is
\* not farther (sorted() is stable)
RECURSIVE InsertByDistance(_, _)
InsertByDistance(sorted, m) ==
    IF sorted = <<>> THEN <<m>>
    ELSE IF Head(sorted).distance <= m.distance
         THEN <<Head(sorted)>> \o InsertByDistance(Tail(sorted), m)
         ELSE <<m>> \o sorted

RECURSIVE StableSort(_)
StableSort(members) ==
    IF members = <<>> THEN <<>>
    ELSE InsertByDistance(StableSort(SubSeq(members, 1, Len(members) - 1)),
                          members[Len(members)])

Unsorted(members) == members

\* line 78: sorted(clusters[cluster_id], key=lambda x: x['distance'])
SortedByDistance(members) == StableSort(members)

\* lines 68-81
cluster_all_words(ws, vs, labels, centres) ==
    LET grouped == GroupByLabel(ws, vs, labels, centres, Len(ws))
    IN  [i \in 1..Len(grouped) |->
            [key |-> grouped[i].key, val |-> SortedByDistance(grouped[i].val)]]

WordsOf(members) == [i \in 1..Len(members) |-> members[i].word]

(***************************************************************************)
(* The titling backend: what requests.post and the parsing of its body     *)
(* give one attempt.  "ok" is status 200 with a completion text,           *)
(* "bad_status" any other status, "exception" a transport error or a 200   *)
(* whose body has no completion (both raise inside the try block).         *)
(***************************************************************************)
RawTexts == { <<" ", "a", " ", "b", "!">>, <<"c", "_", "d">> }

Responses ==
    {[kind |-> "ok", content |-> t] : t \in RawTexts}
        \cup {[kind |-> "bad_status", content |-> <<>>],
              [kind |-> "exception", content |-> <<>>]}

\* line 127
IsSuccess(r) == r.kind = "ok"

DelayAfterAlways(r, att) == IF att < MaxRetries - 1 THEN 1 ELSE 0

\* lines 134, 141-144: the time.sleep(2) calls of the iteration that got r
DelayAfter(r, att) ==
    IF IsSuccess(r) THEN 0
    ELSE IF att < MaxRetries - 1 THEN 1 ELSE 0

\* lines 162-169: the snapshot entry of one cluster
SnapshotEntryLongerTop(cluster_id, category_title, top, words_data) ==
    [cluster_id |-> cluster_id,
     title |-> category_title,
     representative_words |-> Take(top, SampleN),
     total_words |-> Len(words_data),
     sample_words |-> WordsOf(Take(words_data, SampleN)),
     all_words |-> WordsOf(words_data)]

SnapshotEntry(cluster_id, category_title, top, words_data) ==
    [cluster_id |-> cluster_id,
     title |-> category_title,
     representative_words |-> Take(top, RepresentativeN),
     total_words |-> Len(words_data),
     sample_words |-> WordsOf(Take(words_data, SampleN)),
     all_words |-> WordsOf(words_data)]

ServiceIdle ==
    /\ snapshot_file = None
    /\ request = None
    /\ response = None
    /\ calls = <<>>

ScanIdle ==
    /\ point_id = None
    /\ offset = None
    /\ batch_size = None

PropagateIdle ==
    /\ store = <<>>
    /\ stats = [total_updated |-> 0, total_failed |-> 0, categories_processed |-> 0]
    /\ cat_pos = 0
    /\ word_pos = 0
    /\ run = 0
    /\ fault_log = <<>>
    /\ first_run = None

TitlingIdle ==
    /\ categorized_clusters = <<>>
    /\ cluster_pos = 0
    /\ top_words = <<>>
    /\ attempt = 0
    /\ responses = <<>>
    /\ sleeps = 0
    /\ titles = <<>>

\* main after the Fetch stage found a non-empty population whose vectors are
\* the embeddings add_words stored
Init ==
    /\ pc = "cluster"
    /\ \E n \in 1..MaxWords : words \in [1..n -> WordSet]
    /\ vectors = [i \in 1..Len(words) |-> get_vector(words[i])]
    /\ clusters = <<>>
    /\ TitlingIdle
    /\ PropagateIdle
    /\ ServiceIdle
    /\ ScanIdle

\* cluster_all_words called on any words and any vectors
InitCluster ==
    /\ pc = "cluster"
    /\ \E n \in 1..MaxWords :
          /\ words \in [1..n -> WordSet]
          /\ vectors \in [1..n -> Coords]
    /\ clusters = <<>>
    /\ TitlingIdle
    /\ PropagateIdle
    /\ ServiceIdle
    /\ ScanIdle

\* main line 214: clusters, kmeans_model = cluster_all_words(words, vectors, num_clusters)
ClusterAllWords ==
    /\ pc = "cluster"
    /\ \E labels \in [1..Len(words) -> Labels], centres \in [Labels -> Coords] :
          clusters' = cluster_all_words(words, vectors, labels, centres)
    /\ pc' = "title"
    /\ UNCHANGED <<words, vectors, categorized_clusters, cluster_pos, top_words,
                   attempt, responses, sleeps, titles>>
    /\ UNCHANGED propagate_vars
    /\ UNCHANGED service_vars
    /\ UNCHANGED scan_vars

\* lines 157-160: the next cluster of the for loop, up to the call of the titling client
TitleNextCluster ==
    /\ pc = "title"
    /\ cluster_pos < Len(clusters)
    /\ cluster_pos' = cluster_pos + 1
    /\ top_words' = WordsOf(Take(clusters[cluster_pos + 1].val, TopN))
    /\ attempt' = 0
    /\ responses' = <<>>
    /\ sleeps' = 0
    /\ pc' = "call"
    /\ UNCHANGED <<words, vectors, clusters, categorized_clusters, titles>>
    /\ UNCHANGED propagate_vars
    /\ UNCHANGED service_vars
    /\ UNCHANGED scan_vars

\* the titling client returns category_title; lines 162-171 store the entry
ReturnTitle(category_title) ==
    /\ categorized_clusters' =
          DictSet(categorized_clusters, category_title,
                  SnapshotEntry(clusters[cluster_pos].key, category_title,
                                top_words, clusters[cluster_pos].val))
    /\ titles' = Append(titles, category_title)
    /\ pc' = "title"

\* lines 118-144: one iteration of the retry loop
TitleAttempt ==
    /\ pc = "call"
    /\ attempt < MaxRetries
    /\ \E r \in Responses :
          /\ responses' = Append(responses, r)
          /\ sleeps' = sleeps + DelayAfter(r, attempt)
          /\ IF IsSuccess(r)
             THEN /\ ReturnTitle(SanitizeTitle(r.content))
                  /\ UNCHANGED attempt
             ELSE /\ attempt' = attempt + 1
                  /\ UNCHANGED <<pc, categorized_clusters, titles>>
    /\ UNCHANGED <<words, vectors, clusters, cluster_pos, top_words>>
    /\ UNCHANGED propagate_vars
    /\ UNCHANGED service_vars
    /\ UNCHANGED scan_vars

\* line 146: the loop ended without a return; representative_words[2] of a
\* list shorter than three raises IndexError, which nothing catches
TitleFallback ==
    /\ pc = "call"
    /\ attempt = MaxRetries
    /\ IF Len(top_words) >= FallbackWords
       THEN ReturnTitle(FallbackTitle(top_words))
       ELSE /\ pc' = "crashed"
            /\ UNCHANGED <<categorized_clusters, titles>>
    /\ UNCHANGED <<words, vectors, clusters, cluster_pos, top_words, attempt,
                   responses, sleeps>>
    /\ UNCHANGED propagate_vars
    /\ UNCHANGED service_vars
    /\ UNCHANGED scan_vars

\* line 173: return categorized_clusters
TitleDone ==
    /\ pc = "title"
    /\ cluster_pos = Len(clusters)
    /\ pc' = "persist"
    /\ top_words' = <<>>
    /\ attempt' = 0
    /\ responses' = <<>>
    /\ sleeps' = 0
    /\ UNCHANGED <<words, vectors, clusters, categorized_clusters, cluster_pos, titles>>
    /\ UNCHANGED propagate_vars
    /\ UNCHANGED service_vars
    /\ UNCHANGED scan_vars

Next ==
    \/ ClusterAllWords
    \/ TitleNextCluster
    \/ TitleAttempt
    \/ TitleFallback
    \/ TitleDone

Spec == Init /\ [][Next]_vars

NextCluster == ClusterAllWords

SpecCluster == InitCluster /\ [][NextCluster]_vars

(***************************************************************************)
(* update_words_with_categories (qdrant_client.py 94-146), called twice in *)
(* a row with the same snapshot.  The store is the sequence of the         *)
(* collection's records in the order client.scroll returns them.           *)
(***************************************************************************)
\* the meaning the dictionary gives a word
MeaningOf(word) == IF word = <<"a", "b">> THEN <<"m">> ELSE <<"n">>

OldTitle == <<"e">>
PropTitles == << <<"a", "_", "b">>, <<"c", "_", "d">> >>

ZeroStats == [total_updated |-> 0, total_failed |-> 0, categories_processed |-> 0]

KeptStats(previous) == previous

\* lines 97-101: every call starts from zero counters
FreshStats(previous) == ZeroStats

LastMatch(st, w) ==
    IF \E i \in 1..Len(st) : st[i].word = w
    THEN CHOOSE i \in 1..Len(st) :
            /\ st[i].word = w
            /\ \A j \in (i + 1)..Len(st) : st[j].word # w
    ELSE 0

\* lines 111-124: scroll(filter word == w, limit=1): the first record with that
\* word, 0 when there is none
FirstMatch(st, w) ==
    IF \E i \in 1..Len(st) : st[i].word = w
    THEN CHOOSE i \in 1..Len(st) :
            /\ st[i].word = w
            /\ \A j \in 1..(i - 1) : st[j].word # w
    ELSE 0

ClearsPayload(st, i, category_name, cluster_id) ==
    [st EXCEPT ![i].category = Some(category_name),
               ![i].cluster_id = Some(cluster_id),
               ![i].meaning = <<>>]

SetsCategoryOnly(st, i, category_name, cluster_id) ==
    [st EXCEPT ![i].category = Some(category_name)]

\* lines 128-135: set_payload({"category", "cluster_id"}, points=[point.id]):
\* the two keys are set in one request, the other keys and the vector stay
SetPayload(st, i, category_name, cluster_id) ==
    [st EXCEPT ![i].category = Some(category_name),
               ![i].cluster_id = Some(cluster_id)]

CountNoFailure(st, raised, found) ==
    IF ~raised /\ found
    THEN [st EXCEPT !.total_updated = @ + 1]
    ELSE st

\* lines 136, 139, 143: the counters after one word
CountWord(st, raised, found) ==
    IF ~raised /\ found
    THEN [st EXCEPT !.total_updated = @ + 1]
    ELSE [st EXCEPT !.total_failed = @ + 1]

\* the snapshots of at most two entries whose all_words are not empty
SnapshotsOf(lens) ==
    { [i \in 1..Len(lens) |->
          [key |-> PropTitles[i],
           val |-> [cluster_id |-> i - 1,
                    title |-> PropTitles[i],
                    representative_words |-> Take(ws[i], RepresentativeN),
                    total_words |-> Len(ws[i]),
                    sample_words |-> Take(ws[i], SampleN),
                    all_words |-> ws[i]]]]
      : ws \in {f \in [1..Len(lens) -> UNION {[1..n -> WordSet] : n \in 1..MaxSnapWords}] :
                   \A i \in 1..Len(lens) : Len(f[i]) = lens[i]} }

SnapshotShapes ==
    {<<>>} \cup {<<n>> : n \in 1..MaxSnapWords}
           \cup {<<n, m>> : n \in 1..MaxSnapWords, m \in 1..MaxSnapWords}

Snapshots ==
    UNION {SnapshotsOf(lens) : lens \in {l \in SnapshotShapes : SumSeq(l) <= MaxSnapWords}}

\* the stores: records as add_words made them, never categorized or all
\* categorized by an earlier job
Stores ==
    UNION { { [i \in 1..n |->
                 [id |-> i,
                  vector |-> get_vector(ws[i]),
                  word |-> ws[i],
                  meaning |-> MeaningOf(ws[i]),
                  synonyms |-> <<>>,
                  antonyms |-> <<>>,
                  examples |-> <<>>,
                  category |-> IF old THEN Some(OldTitle) ELSE None,
                  cluster_id |-> IF old THEN Some(NumClusters) ELSE None]]
              : ws \in [1..n -> WordSet] }
            : n \in 0..MaxRecords, old \in BOOLEAN }

InitPropagate ==
    /\ pc = "update"
    /\ words = <<>>
    /\ vectors = <<>>
    /\ clusters = <<>>
    /\ categorized_clusters \in Snapshots
    /\ cluster_pos = 0
    /\ top_words = <<>>
    /\ attempt = 0
    /\ responses = <<>>
    /\ sleeps = 0
    /\ titles = <<>>
    /\ store \in Stores
    /\ stats = ZeroStats
    /\ cat_pos = 0
    /\ word_pos = 0
    /\ run = 1
    /\ fault_log = << <<>>, <<>> >>
    /\ first_run = None
    /\ ServiceIdle
    /\ ScanIdle

CurrentWords ==
    IF cat_pos = 0 THEN <<>> ELSE categorized_clusters[cat_pos].val.all_words

Raises(log) == Cardinality({i \in 1..Len(log) : log[i]})

\* lines 105-107: the next entry of the outer loop
UpdateNextCategory ==
    /\ pc = "update"
    /\ word_pos = Len(CurrentWords)
    /\ cat_pos < Len(categorized_clusters)
    /\ cat_pos' = cat_pos + 1
    /\ word_pos' = 0
    /\ stats' = [stats EXCEPT !.categories_processed = @ + 1]
    /\ UNCHANGED <<pc, store, run, fault_log, first_run>>
    /\ UNCHANGED pipeline_vars
    /\ UNCHANGED service_vars
    /\ UNCHANGED scan_vars

\* lines 109-143: one word of the inner loop.  A backend call that raises
\* leaves the record as it was.
UpdateWord ==
    /\ pc = "update"
    /\ word_pos < Len(CurrentWords)
    /\ LET word == CurrentWords[word_pos + 1]
           data == categorized_clusters[cat_pos].val
           point == FirstMatch(store, word)
       IN  \/ /\ Raises(fault_log[run]) < MaxFaults      \* client.scroll raises
              /\ stats' = CountWord(stats, TRUE, point # 0)
              /\ fault_log' = [fault_log EXCEPT ![run] = Append(@, TRUE)]
              /\ UNCHANGED store
           \/ /\ Raises(fault_log[run]) < MaxFaults      \* client.set_payload raises
              /\ point # 0
              /\ stats' = CountWord(stats, TRUE, TRUE)
              /\ fault_log' = [fault_log EXCEPT ![run] = Append(@, TRUE)]
              /\ UNCHANGED store
           \/ /\ point # 0                               \* the record is patched
              /\ store' = SetPayload(store, point, categorized_clusters[cat_pos].key,
                                     data.cluster_id)
              /\ stats' = CountWord(stats, FALSE, TRUE)
              /\ fault_log' = [fault_log EXCEPT ![run] = Append(@, FALSE)]
           \/ /\ point = 0                               \* no record has the word
              /\ stats' = CountWord(stats, FALSE, FALSE)
              /\ fault_log' = [fault_log EXCEPT ![run] = Append(@, FALSE)]
              /\ UNCHANGED store
    /\ word_pos' = word_pos + 1
    /\ UNCHANGED <<pc, cat_pos, run, first_run>>
    /\ UNCHANGED pipeline_vars
    /\ UNCHANGED service_vars
    /\ UNCHANGED scan_vars

\* lines 145-146: return stats
UpdateReturn ==
    /\ pc = "update"
    /\ word_pos = Len(CurrentWords)
    /\ cat_pos = Len(categorized_clusters)
    /\ pc' = "updated"
    /\ first_run' = IF run = 1 THEN Some([store |-> store, stats |-> stats])
                    ELSE first_run
    /\ UNCHANGED <<store, stats, cat_pos, word_pos, run, fault_log>>
    /\ UNCHANGED pipeline_vars
    /\ UNCHANGED service_vars
    /\ UNCHANGED scan_vars

\* the caller runs the propagation again with the same snapshot
UpdateAgain ==
    /\ pc = "updated"
    /\ run = 1
    /\ run' = 2
    /\ pc' = "update"
    /\ stats' = FreshStats(stats)
    /\ cat_pos' = 0
    /\ word_pos' = 0
    /\ UNCHANGED <<store, fault_log, first_run>>
    /\ UNCHANGED pipeline_vars
    /\ UNCHANGED service_vars
    /\ UNCHANGED scan_vars

NextPropagate ==
    \/ UpdateNextCategory
    \/ UpdateWord
    \/ UpdateReturn
    \/ UpdateAgain

SpecPropagate == InitPropagate /\ [][NextPropagate]_vars

(***************************************************************************)
(* One propagation run while the service inserts and reads: the scroll and *)
(* the set_payload of a word are two requests to the backend, and requests *)
(* of the service are served between them.                                 *)
(***************************************************************************)

\* the position of the record with the id
IndexOfId(st, id) == CHOOSE i \in 1..Len(st) : st[i].id = id

\* lines 111-127: the scroll of the next word; it raises, finds no record, or
\* gives points[0]
ScrollWord ==
    /\ pc = "update"
    /\ word_pos < Len(CurrentWords)
    /\ LET found == FirstMatch(store, CurrentWords[word_pos + 1])
       IN  \/ /\ Raises(fault_log[run]) < MaxFaults      \* client.scroll raises
              /\ stats' = CountWord(stats, TRUE, found # 0)
              /\ fault_log' = [fault_log EXCEPT ![run] = Append(@, TRUE)]
              /\ word_pos' = word_pos + 1
              /\ UNCHANGED <<pc, point_id>>
           \/ /\ found = 0                               \* no record has the word
              /\ stats' = CountWord(stats, FALSE, FALSE)
              /\ fault_log' = [fault_log EXCEPT ![run] = Append(@, FALSE)]
              /\ word_pos' = word_pos + 1
              /\ UNCHANGED <<pc, point_id>>
           \/ /\ found # 0                               \* point = points[0]
              /\ point_id' = Some(store[found].id)
              /\ pc' = "patch"
              /\ UNCHANGED <<stats, fault_log, word_pos>>
    /\ UNCHANGED <<store, cat_pos, run, first_run, offset, batch_size>>
    /\ UNCHANGED pipeline_vars
    /\ UNCHANGED service_vars

\* lines 128-143: set_payload on point.id; it raises or patches the record
PatchWord ==
    /\ pc = "patch"
    /\ \/ /\ Raises(fault_log[run]) < MaxFaults         \* client.set_payload raises
          /\ stats' = CountWord(stats, TRUE, TRUE)
          /\ fault_log' = [fault_log EXCEPT ![run] = Append(@, TRUE)]
          /\ UNCHANGED store
       \/ /\ store' = SetPayload(store, IndexOfId(store, point_id[1]),
                                 categorized_clusters[cat_pos].key,
                                 categorized_clusters[cat_pos].val.cluster_id)
          /\ stats' = CountWord(stats, FALSE, TRUE)
          /\ fault_log' = [fault_log EXCEPT ![run] = Append(@, FALSE)]
    /\ word_pos' = word_pos + 1
    /\ point_id' = None
    /\ pc' = "update"
    /\ UNCHANGED <<cat_pos, run, first_run, offset, batch_size>>
    /\ UNCHANGED pipeline_vars
    /\ UNCHANGED service_vars

\* add_words served during the run (routes_words.py 12-29, insert_word):
\* a record without labels under a new id, anywhere in the scroll order
ConcurrentInsert ==
    /\ pc \in {"update", "patch"}
    /\ Len(store) < MaxRecords
    /\ \E word \in WordSet, position \in 1..(Len(store) + 1) :
          store' = SubSeq(store, 1, position - 1)
                   \o << [id |-> Len(store) + 1,
                          vector |-> get_vector(word),
                          word |-> word,
                          meaning |-> MeaningOf(word),
                          synonyms |-> <<>>,
                          antonyms |-> <<>>,
                          examples |-> <<>>,
                          category |-> None,
                          cluster_id |-> None] >>
                   \o SubSeq(store, position, Len(store))
    /\ UNCHANGED <<pc, stats, cat_pos, word_pos, run, fault_log, first_run>>
    /\ UNCHANGED pipeline_vars
    /\ UNCHANGED service_vars
    /\ UNCHANGED scan_vars

\* a query-layer scan served during the run (get_all_categories lines
\* 193-211, get_words_in_category lines 154-161): the labels that the
\* payloads of one page carry
ConcurrentRead ==
    /\ pc \in {"update", "patch"}
    /\ request' = Some([handler |-> "scroll"])
    /\ response' = Some({[category |-> store[i].category,
                          cluster_id |-> store[i].cluster_id] : i \in 1..Len(store)})
    /\ UNCHANGED <<pc, snapshot_file, calls>>
    /\ UNCHANGED pipeline_vars
    /\ UNCHANGED propagate_vars
    /\ UNCHANGED scan_vars

NextConcurrent ==
    \/ UpdateNextCategory
    \/ ScrollWord
    \/ PatchWord
    \/ UpdateReturn
    \/ ConcurrentInsert
    \/ ConcurrentRead

\* the run starts on a store with a snapshot of at most MaxRunWords words
InitConcurrent ==
    /\ InitPropagate
    /\ SumSeq([e \in 1..Len(categorized_clusters) |->
                  categorized_clusters[e].val.total_words]) <= MaxRunWords

SpecConcurrent == InitConcurrent /\ [][NextConcurrent]_vars

(***************************************************************************)
(* qdrant_client.py, get_all_categories: the scan that tallies categories. *)
(***************************************************************************)

\* line 208: if category: None and the empty string are skipped
Truthy(text) == text # None /\ text[1] # <<>>

\* lines 206-211: the tally, a dict in order of first occurrence
RECURSIVE TallyCategories(_, _)
TallyCategories(st, all_categories) ==
    IF st = <<>> THEN all_categories
    ELSE LET category == Head(st).category
             seen == IF DictHas(all_categories, category[1])
                     THEN DictGet(all_categories, category[1]) ELSE 0
         IN  TallyCategories(Tail(st),
                IF Truthy(category)
                THEN DictSet(all_categories, category[1], seen + 1)
                ELSE all_categories)

RECURSIVE InsertByCount(_, _)
InsertByCount(sorted, m) ==
    IF sorted = <<>> THEN <<m>>
    ELSE IF Head(sorted).val >= m.val
         THEN <<Head(sorted)>> \o InsertByCount(Tail(sorted), m)
         ELSE <<m>> \o sorted

UnsortedItems(items) == items

\* line 219: sorted(all_categories.items(), key=lambda x: x[1], reverse=True),
\* a stable sort
RECURSIVE SortedByCount(_)
SortedByCount(items) ==
    IF items = <<>> THEN <<>>
    ELSE InsertByCount(SortedByCount(SubSeq(items, 1, Len(items) - 1)),
                       items[Len(items)])

\* lines 187-226: the listing; [] when the scan raised
get_all_categories(st, raised) ==
    IF raised THEN <<>>
    ELSE LET items == SortedByCount(TallyCategories(st, <<>>))
         IN  [i \in 1..Len(items) |->
                 [category |-> items[i].key, word_count |-> items[i].val]]

(***************************************************************************)
(* clustring.py, fetch_all_words_from_qdrant: the paging loop.             *)
(***************************************************************************)

\* a store of any words with any vectors, ids ascending in scroll order
FetchStores ==
    UNION { { [i \in 1..n |-> [id |-> i, vector |-> vs[i], word |-> ws[i]]]
              : ws \in [1..n -> WordSet], vs \in [1..n -> Coords] }
            : n \in 0..MaxRecords }

ScrollFirstPageOnly(st, from, limit) ==
    [points |-> Take(st, limit), next_offset |-> None]

\* lines 28-35: client.scroll(limit, offset): at most limit records from the
\* one with the offset id on (from the first one without offset), and the id
\* of the record after them, None when there is none
ScrollPage(st, from, limit) ==
    LET start == IF from = None THEN 1
                 ELSE IF \E k \in 1..Len(st) : st[k].id >= from[1]
                 THEN CHOOSE k \in 1..Len(st) :
                         /\ st[k].id >= from[1]
                         /\ \A j \in 1..(k - 1) : st[j].id < from[1]
                 ELSE Len(st) + 1
        stop == Min(start + limit - 1, Len(st))
    IN  [points |-> SubSeq(st, start, stop),
         next_offset |-> IF stop < Len(st) THEN Some(st[stop + 1].id) ELSE None]

\* fetch_all_words_from_qdrant is called with a batch size on a store
InitFetch ==
    /\ pc = "fetch"
    /\ words = <<>>
    /\ vectors = <<>>
    /\ clusters = <<>>
    /\ TitlingIdle
    /\ store \in FetchStores
    /\ stats = ZeroStats
    /\ cat_pos = 0
    /\ word_pos = 0
    /\ run = 0
    /\ fault_log = <<>>
    /\ first_run = None
    /\ ServiceIdle
    /\ point_id = None
    /\ offset = None
    /\ batch_size \in 1..MaxBatch

\* lines 27-46: one iteration of the while loop; an empty page or a None
\* cursor ends the loop and lines 48-49 return
FetchPage ==
    /\ pc = "fetch"
    /\ LET results == ScrollPage(store, offset, batch_size)
       IN  IF results.points = <<>>
           THEN /\ pc' = "fetched"
                /\ UNCHANGED <<words, vectors, offset>>
           ELSE /\ words' = words \o [i \in 1..Len(results.points) |->
                                         results.points[i].word]
                /\ vectors' = vectors \o [i \in 1..Len(results.points) |->
                                             results.points[i].vector]
                /\ offset' = results.next_offset
                /\ pc' = IF results.next_offset = None THEN "fetched" ELSE "fetch"
    /\ UNCHANGED <<clusters, categorized_clusters, cluster_pos, top_words, attempt,
                   responses, sleeps, titles>>
    /\ UNCHANGED propagate_vars
    /\ UNCHANGED service_vars
    /\ UNCHANGED <<point_id, batch_size>>

NextFetch == FetchPage

\* the loop runs on: nothing else is scheduled in the job
SpecFetch == InitFetch /\ [][NextFetch]_vars /\ WF_vars(NextFetch)

(***************************************************************************)
(* The categorization job from its entry point: clustring.py, main and the *)
(* __main__ block, over the records add_words stored.                      *)
(***************************************************************************)

NeverEmpty(ws) == FALSE

\* line 209: len(words) == 0
PopulationIsEmpty(ws) == Len(ws) = 0

\* lines 20-49: the words of every record, in scroll order
FetchedWords(st) == [i \in 1..Len(st) |-> st[i].word]

\* the job is started on a store
InitMain ==
    /\ pc = "fetch"
    /\ words = <<>>
    /\ vectors = <<>>
    /\ clusters = <<>>
    /\ TitlingIdle
    /\ store \in Stores
    /\ stats = ZeroStats
    /\ cat_pos = 0
    /\ word_pos = 0
    /\ run = 1
    /\ fault_log = << <<>>, <<>> >>
    /\ first_run = None
    /\ ServiceIdle
    /\ ScanIdle

\* lines 207-211: fetch; an empty population prints a message and returns None
MainFetch ==
    /\ pc = "fetch"
    /\ words' = FetchedWords(store)
    /\ vectors' = [i \in 1..Len(store) |-> get_vector(store[i].word)]
    /\ pc' = IF PopulationIsEmpty(FetchedWords(store)) THEN "returned_none" ELSE "cluster"
    /\ UNCHANGED <<clusters, categorized_clusters, cluster_pos, top_words, attempt,
                   responses, sleeps, titles>>
    /\ UNCHANGED propagate_vars
    /\ UNCHANGED service_vars
    /\ UNCHANGED scan_vars

MainPersistSkipsWrite ==
    /\ pc = "persist"
    /\ pc' = "update"
    /\ UNCHANGED pipeline_vars
    /\ UNCHANGED propagate_vars
    /\ UNCHANGED service_vars
    /\ UNCHANGED scan_vars

\* lines 218-225: save_clusters writes the snapshot file, print_summary, then
\* update_words_with_categories is entered
MainPersist ==
    /\ pc = "persist"
    /\ snapshot_file' = Some(categorized_clusters)
    /\ pc' = "update"
    /\ UNCHANGED pipeline_vars
    /\ UNCHANGED propagate_vars
    /\ UNCHANGED <<request, response, calls>>
    /\ UNCHANGED scan_vars

\* lines 226-234: the counters are printed, the model is pickled, main returns
\* the pair (categorized, kmeans_model)
MainFinish ==
    /\ pc = "updated"
    /\ pc' = "returned"
    /\ UNCHANGED pipeline_vars
    /\ UNCHANGED propagate_vars
    /\ UNCHANGED service_vars
    /\ UNCHANGED scan_vars

\* line 242: categories, model = main(); unpacking None raises TypeError
EntryUnpack ==
    /\ pc \in {"returned", "returned_none"}
    /\ pc' = IF pc = "returned" THEN "exit" ELSE "type_error"
    /\ UNCHANGED pipeline_vars
    /\ UNCHANGED propagate_vars
    /\ UNCHANGED service_vars
    /\ UNCHANGED scan_vars

NextMain ==
    \/ MainFetch
    \/ ClusterAllWords
    \/ TitleNextCluster
    \/ TitleAttempt
    \/ TitleFallback
    \/ TitleDone
    \/ MainPersist
    \/ UpdateNextCategory
    \/ UpdateWord
    \/ UpdateReturn
    \/ MainFinish
    \/ EntryUnpack

SpecMain == InitMain /\ [][NextMain]_vars

(***************************************************************************)
(* Properties.                                                             *)
(***************************************************************************)
SnapshotWords ==
    Flatten([i \in 1..Len(categorized_clusters) |->
                categorized_clusters[i].val.all_words])

AllowedTitle(t) == \A j \in 1..Len(t) : IsAlnum(t[j]) \/ t[j] = "_"

\* the titling call of the current cluster has ended
CallEnded == (pc = "title" /\ cluster_pos >= 1) \/ pc = "crashed"

AllAttemptsFailed == \A i \in 1..Len(responses) : ~IsSuccess(responses[i])

\* C1: after the Title stage the all_words lists of the snapshot entries hold
\* every fetched word exactly as often as it was fetched.
C1_SnapshotHoldsEveryWord ==
    pc = "persist" =>
        \A w \in WordSet : Count(SnapshotWords, w) = Count(words, w)

\* C2: cluster_all_words puts every input position in exactly one member
\* list, the lists together are as long as the input, each member carries the
\* word of its position, and no cluster of the result is empty.
C2_EveryInputInOneCluster ==
    pc = "title" =>
        /\ \A k \in 1..Len(words) :
              Cardinality({ij \in (1..Len(clusters)) \X (1..Len(words)) :
                              /\ ij[2] <= Len(clusters[ij[1]].val)
                              /\ clusters[ij[1]].val[ij[2]].idx = k}) = 1
        /\ SumSeq([i \in 1..Len(clusters) |-> Len(clusters[i].val)]) = Len(words)
        /\ \A i \in 1..Len(clusters) :
              /\ clusters[i].val # <<>>
              /\ \A j \in 1..Len(clusters[i].val) :
                    clusters[i].val[j].word = words[clusters[i].val[j].idx]
        /\ \A i, j \in 1..Len(clusters) :
              clusters[i].key = clusters[j].key => i = j

C2_Witness ==
    /\ pc = "title"
    /\ Len(words) >= 3
    /\ Len(clusters) = 2

\* C3: every member list of the result is sorted non-decreasing by distance,
\* so for every N the first N members are N members of minimal distance.
C3_MembersSortedByDistance ==
    pc = "title" =>
        \A i \in 1..Len(clusters) :
            LET m == clusters[i].val
            IN  /\ \A j \in 1..(Len(m) - 1) : m[j].distance <= m[j + 1].distance
                /\ \A n \in 0..Len(m) :
                      \A j \in 1..n, k \in (n + 1)..Len(m) :
                          m[j].distance <= m[k].distance

\* a cluster whose closest member was not the first input put into it
C3_Witness ==
    /\ pc = "title"
    /\ \E i \in 1..Len(clusters) :
          /\ Len(clusters[i].val) >= 2
          /\ clusters[i].val[1].idx > clusters[i].val[2].idx
          /\ clusters[i].val[1].distance < clusters[i].val[2].distance

\* C4: the Title stage always ends normally, with one title per cluster.
C4_TitleStageTitlesEveryCluster ==
    /\ pc # "crashed"
    /\ pc = "persist" => Len(titles) = Len(clusters)

\* C5: a titling call whose attempts all failed made exactly max_retries
\* attempts and returned Cluster_<w1>_<w2>_<w3>.
C5_AllFailedGivesFallback ==
    (CallEnded /\ AllAttemptsFailed) =>
        /\ Len(responses) = MaxRetries
        /\ pc = "title"
        /\ Len(titles) = cluster_pos
        /\ titles[cluster_pos] = FallbackTitle(top_words)

\* C6: a success response is the last response of its call: the call has
\* returned the sanitized title of that response, and slept only after the
\* failed attempts before it.
C6_FirstSuccessEndsLoop ==
    \A i \in 1..Len(responses) :
        IsSuccess(responses[i]) =>
            /\ i = Len(responses)
            /\ i <= MaxRetries
            /\ pc = "title"
            /\ sleeps = i - 1
            /\ Len(titles) = cluster_pos
            /\ titles[cluster_pos] = SanitizeTitle(responses[i].content)
            /\ DictHas(categorized_clusters, SanitizeTitle(responses[i].content))

\* the success came on the final attempt
C6_Witness ==
    /\ pc = "title"
    /\ Len(responses) = MaxRetries
    /\ IsSuccess(responses[MaxRetries])
    /\ sleeps = MaxRetries - 1

\* C7: every title the titling client returned holds only alphanumeric
\* characters and underscores.
C7_TitlesAreSanitized ==
    \A i \in 1..Len(titles) : AllowedTitle(titles[i])

\* C8 as stated: after the second of two consecutive runs with the same
\* snapshot every record is as after the first run and the counters are equal.
C8_SecondRunChangesNothing ==
    (pc = "updated" /\ run = 2) =>
        /\ store = first_run[1].store
        /\ stats.total_updated = first_run[1].stats.total_updated
        /\ stats.total_failed = first_run[1].stats.total_failed

\* C8 amended: the same, when the backend calls of both runs raised for the
\* same words (in particular when none raised).
C8_SecondRunSameFaultsChangesNothing ==
    (pc = "updated" /\ run = 2 /\ fault_log[1] = fault_log[2]) =>
        /\ store = first_run[1].store
        /\ stats.total_updated = first_run[1].stats.total_updated
        /\ stats.total_failed = first_run[1].stats.total_failed

\* two runs that both patched a record and both had the same call raise
C8_Witness ==
    /\ pc = "updated"
    /\ run = 2
    /\ fault_log[1] = fault_log[2]
    /\ Raises(fault_log[2]) >= 1
    /\ stats.total_updated >= 1

\* C9: after a run without backend error every record whose word is in an
\* entry's all_words carries that entry's title and cluster_id.
C9_EveryListedRecordIsLabelled ==
    (pc = "updated" /\ Raises(fault_log[run]) = 0) =>
        \A i \in 1..Len(store), e \in 1..Len(categorized_clusters) :
            (\E j \in 1..Len(categorized_clusters[e].val.all_words) :
                categorized_clusters[e].val.all_words[j] = store[i].word)
            => /\ store[i].category = Some(categorized_clusters[e].key)
               /\ store[i].cluster_id = Some(categorized_clusters[e].val.cluster_id)

\* C10: at every point of a run, each processed word whose backend call raised
\* or that has no record counted once in total_failed and every other one once
\* in total_updated; the returned summary covers every entry and every word.
C10_SummaryCountsEveryWord ==
    pc \in {"update", "updated"} =>
        LET log == fault_log[run]
            processed == Take(SnapshotWords, Len(log))
            failed == {i \in 1..Len(processed) :
                          log[i] \/ FirstMatch(store, processed[i]) = 0}
        IN  /\ Len(log) <= Len(SnapshotWords)
            /\ stats.total_failed = Cardinality(failed)
            /\ stats.total_updated = Len(processed) - Cardinality(failed)
            /\ pc = "updated" =>
                  /\ stats.categories_processed = Len(categorized_clusters)
                  /\ stats.total_updated + stats.total_failed = Len(SnapshotWords)

\* a run that went on after a call raised and after a word had no record
C10_Witness ==
    /\ pc = "updated"
    /\ Raises(fault_log[run]) >= 1
    /\ stats.total_failed >= 2
    /\ stats.total_updated >= 1
    /\ fault_log[run][1]

(***************************************************************************)
(* The HTTP service: routes_words.py over qdrant_client.py.  One action    *)
(* per route handler, from the request to the response; the backend call   *)
(* of a handler either answers or raises.  A stored record is its payload  *)
(* (synonyms, antonyms and examples, which no handler reads, are left      *)
(* out); its vector is get_vector of its word; the store is the sequence   *)
(* of records in scroll order.  A text is a sequence of characters, a      *)
(* meaning or a keyword a sequence of tokens; every word is added with the *)
(* meaning the dictionary gives it.                                        *)
(***************************************************************************)

Keywords == {<<"m">>}
Limits == {1, 2}
TopCategories == 10

\* a text parameter that was not given, given empty, or given
Optional(texts) == {None, Some(<<>>)} \cup {Some(t) : t \in texts}

\* the labels a record can carry: none (never categorized), or the title and
\* the id of a snapshot entry; a titling answer without any allowed character
\* is sanitized to the empty title
Labelled ==
    {[category |-> None, cluster_id |-> None],
     [category |-> Some(SanitizeTitle(<<"!">>)), cluster_id |-> Some(0)],
     [category |-> Some(PropTitles[1]), cluster_id |-> Some(0)],
     [category |-> Some(PropTitles[2]), cluster_id |-> Some(1)]}

Record(word, label) ==
    [word |-> word, meaning |-> MeaningOf(word),
     category |-> label.category, cluster_id |-> label.cluster_id]

ServiceStores ==
    UNION { { [i \in 1..n |-> Record(ws[i], ls[i])]
              : ws \in [1..n -> WordSet], ls \in [1..n -> Labelled] }
            : n \in 0..MaxRecords }

\* MatchText: every token of the keyword occurs in the field
MatchText(meaning, keyword) ==
    \A i \in 1..Len(keyword) : \E j \in 1..Len(meaning) : meaning[j] = keyword[i]

\* the cosine score of a stored vector against the query vector, in 1/10000
Similarity(v, q) == 10000 \div (1 + Distance(v, q))

\* round(score, 3) of a score held in 1/10000
Round3(score) == ((score + 5) \div 10) * 10

RECURSIVE InsertByScore(_, _)
InsertByScore(sorted, hit) ==
    IF sorted = <<>> THEN <<hit>>
    ELSE IF Head(sorted).score >= hit.score
         THEN <<Head(sorted)>> \o InsertByScore(Tail(sorted), hit)
         ELSE <<hit>> \o sorted

RECURSIVE RankByScore(_)
RankByScore(hits) ==
    IF hits = <<>> THEN <<>>
    ELSE InsertByScore(RankByScore(SubSeq(hits, 1, Len(hits) - 1)), hits[Len(hits)])

MatchesAnything(rec, category, meaning_keyword) == TRUE

\* models.Filter(must=[category == value, meaning matches text]); a condition
\* is added only for a truthy parameter (qdrant_client.py:241, 249)
MatchesFilter(rec, category, meaning_keyword) ==
    /\ Truthy(category) => rec.category = category
    /\ Truthy(meaning_keyword) => MatchText(rec.meaning, meaning_keyword[1])

\* client.search over the records that pass the query filter: best score
\* first, at most limit
ClientSearch(points, vector, limit) ==
    LET hits == [i \in 1..Len(points) |->
                    [payload |-> points[i],
                     score |-> Similarity(get_vector(points[i].word), vector)]]
    IN  Take(RankByScore(hits), limit)

\* client.scroll over the records that pass the scroll filter: the first
\* limit of them in scroll order, and whether a next page exists
ClientScroll(points, limit) ==
    [points |-> Take(points, limit), more |-> Len(points) > limit]

\* qdrant_client.py lines 52-61: the hits, or None when the backend raised
search_similar(st, vector, limit, raised) ==
    IF raised THEN None
    ELSE Some(ClientSearch(st, vector, limit))

\* lines 64-88: the entries, or None when the backend raised
hybrid_search(st, vector, keyword, limit, raised) ==
    IF raised THEN None
    ELSE LET results == ClientSearch(
                            SelectSeq(st, LAMBDA rec : MatchText(rec.meaning, keyword)),
                            vector, limit)
         IN  Some([i \in 1..Len(results) |->
                      [word |-> results[i].payload.word,
                       score |-> results[i].score,
                       meaning |-> results[i].payload.meaning]])

\* lines 152-181: the entries, [] when the backend raised
search_by_category(st, vector, category, limit, raised) ==
    IF raised THEN <<>>
    ELSE LET results == ClientSearch(
                            SelectSeq(st, LAMBDA rec : rec.category = Some(category)),
                            vector, limit)
         IN  [i \in 1..Len(results) |->
                 [word |-> results[i].payload.word,
                  score |-> Some(Round3(results[i].score)),
                  category |-> results[i].payload.category,
                  meaning |-> results[i].payload.meaning]]

\* lines 232-298: a ranked search when a vector is given, else a filtered
\* scroll whose entries have no score; [] when the backend raised
advanced_filter_search(st, vector, category, meaning_keyword, limit, raised) ==
    IF raised THEN <<>>
    ELSE IF vector # None
    THEN LET results == ClientSearch(
                            SelectSeq(st, LAMBDA rec :
                                MatchesFilter(rec, category, meaning_keyword)),
                            vector[1], limit)
         IN  [i \in 1..Len(results) |->
                 [word |-> results[i].payload.word,
                  score |-> Some(Round3(results[i].score)),
                  category |-> results[i].payload.category,
                  meaning |-> results[i].payload.meaning]]
    ELSE LET points == ClientScroll(
                            SelectSeq(st, LAMBDA rec :
                                MatchesFilter(rec, category, meaning_keyword)),
                            limit).points
         IN  [i \in 1..Len(points) |->
                 [word |-> points[i].word,
                  score |-> None,
                  category |-> points[i].category,
                  meaning |-> points[i].meaning]]

\* the entry a route builds from a hit: word, score, meaning, category
HitEntry(r, score) ==
    [word |-> r.payload.word, score |-> Some(score),
     meaning |-> r.payload.meaning, category |-> r.payload.category]

\* raise HTTPException(status_code, ...)
HttpError(status_code) == [status |-> status_code, null |-> FALSE]

\* a returned body: FastAPI answers 200; a handler that returns None answers null
HttpOk(body) == [status |-> 200, null |-> FALSE, body |-> body]
HttpNull == [status |-> 200, null |-> TRUE]

\* the service waits for a request on a store
InitService ==
    /\ pc = "idle"
    /\ words = <<>>
    /\ vectors = <<>>
    /\ clusters = <<>>
    /\ TitlingIdle
    /\ store \in ServiceStores
    /\ stats = ZeroStats
    /\ cat_pos = 0
    /\ word_pos = 0
    /\ run = 0
    /\ fault_log = <<>>
    /\ first_run = None
    /\ ServiceIdle
    /\ ScanIdle

\* what every handler leaves alone
HandlerFrame ==
    /\ UNCHANGED pipeline_vars
    /\ UNCHANGED <<stats, cat_pos, word_pos, run, fault_log, first_run, snapshot_file>>
    /\ UNCHANGED scan_vars

Responds(req, resp, log) ==
    /\ pc = "idle"
    /\ pc' = "responded"
    /\ request' = Some(req)
    /\ response' = Some(resp)
    /\ calls' = log
    /\ HandlerFrame

InsertAt(st, position, rec) ==
    SubSeq(st, 1, position - 1) \o <<rec>> \o SubSeq(st, position, Len(st))

\* routes_words.py lines 12-29 with insert_word (qdrant_client.py 36-49):
\* upsert under a new uuid4, whose place in the scroll order is arbitrary; an
\* upsert that raises is logged by insert_word and add_words goes on
AddWords ==
    \E word \in WordSet, raised \in BOOLEAN :
       /\ raised \/ Len(store) < MaxRecords
       /\ IF raised THEN UNCHANGED store
          ELSE \E position \in 1..(Len(store) + 1) :
                  store' = InsertAt(store, position,
                                    Record(word, [category |-> None,
                                                  cluster_id |-> None]))
       /\ Responds([handler |-> "add_words", word |-> word,
                    meaning |-> MeaningOf(word), raised |-> raised],
                   HttpOk([message |-> "added successfully", word |-> word]),
                   <<"get_vector", "upsert">>)

\* lines 32-49: iterating the None of a failed search raises TypeError, which
\* the handler turns into HTTPException(500)
SearchWord ==
    \E word \in WordSet, limit \in Limits, raised \in BOOLEAN :
       LET result == search_similar(store, get_vector(word), limit, raised)
       IN  /\ Responds([handler |-> "search_word", word |-> word, limit |-> limit,
                        raised |-> raised],
                       IF result = None THEN HttpError(500)
                       ELSE HttpOk([i \in 1..Len(result[1]) |->
                                       HitEntry(result[1][i], result[1][i].score)]),
                       <<"get_vector", "search">>)
           /\ UNCHANGED store

\* lines 52-72
SearchByMeaning ==
    \E text \in WordSet, limit \in Limits, raised \in BOOLEAN :
       LET results == search_similar(store, get_vector(text), limit, raised)
       IN  /\ Responds([handler |-> "search_by_meaning", text |-> text,
                        limit |-> limit, raised |-> raised],
                       IF results = None THEN HttpError(500)
                       ELSE HttpOk([i \in 1..Len(results[1]) |->
                                       HitEntry(results[1][i],
                                                Round3(results[1][i].score))]),
                       <<"get_vector", "search">>)
           /\ UNCHANGED store

\* lines 102-122: whatever hybrid_search returned is the body
HybridSearchEndpoint ==
    \E query \in WordSet, keywords \in Keywords, limit \in Limits, raised \in BOOLEAN :
       LET results == hybrid_search(store, get_vector(query), keywords, limit, raised)
       IN  /\ Responds([handler |-> "hybrid_search", query |-> query,
                        keywords |-> keywords, limit |-> limit, raised |-> raised],
                       IF results = None THEN HttpNull ELSE HttpOk(results[1]),
                       <<"get_vector", "search">>)
           /\ UNCHANGED store

\* lines 126-136
ListAllCategories ==
    \E raised \in BOOLEAN :
       LET categories == get_all_categories(store, raised)
       IN  /\ Responds([handler |-> "categories", raised |-> raised],
                       HttpOk([total_categories |-> Len(categories),
                               categories |-> categories]),
                       <<"scroll">>)
           /\ UNCHANGED store

\* lines 140-182, called with the default offset: the handler scrolls the
\* store itself and turns a raised scroll into HTTPException(500)
GetWordsInCategory ==
    \E category_name \in {PropTitles[1], PropTitles[2]}, limit \in Limits,
       raised \in BOOLEAN :
       LET results == ClientScroll(
                          SelectSeq(store, LAMBDA rec : rec.category = Some(category_name)),
                          limit)
       IN  /\ Responds([handler |-> "category", category |-> category_name,
                        limit |-> limit, raised |-> raised],
                       IF raised THEN HttpError(500)
                       ELSE HttpOk([category |-> category_name,
                                    total_returned |-> Len(results.points),
                                    has_more |-> results.more,
                                    words |-> [i \in 1..Len(results.points) |->
                                        [word |-> results.points[i].word,
                                         meaning |-> results.points[i].meaning,
                                         category |-> results.points[i].category]]]),
                       <<"scroll">>)
           /\ UNCHANGED store

\* lines 185-207
SearchWithinCategory ==
    \E query \in WordSet, category \in {PropTitles[1]}, limit \in Limits,
       raised \in BOOLEAN :
       LET results == search_by_category(store, get_vector(query), category,
                                         limit, raised)
       IN  /\ Responds([handler |-> "search_in_category", query |-> query,
                        category |-> category, limit |-> limit, raised |-> raised],
                       HttpOk([query |-> query, category |-> category,
                               total_results |-> Len(results),
                               results |-> results]),
                       <<"get_vector", "search">>)
           /\ UNCHANGED store

NeverRejects(query, category, meaning_keyword) == FALSE

\* line 223: not any([query, category, meaning_keyword])
NoSearchParameter(query, category, meaning_keyword) ==
    ~(Truthy(query) \/ Truthy(category) \/ Truthy(meaning_keyword))

\* lines 210-251
AdvancedSearch ==
    \E query \in Optional({<<"a", "b">>}), category \in Optional({PropTitles[1]}),
       meaning_keyword \in Optional(Keywords), limit \in Limits, raised \in BOOLEAN :
       LET req == [handler |-> "advanced_search", query |-> query,
                   category |-> category, meaning_keyword |-> meaning_keyword,
                   limit |-> limit, raised |-> raised]
           vector == IF Truthy(query) THEN Some(get_vector(query[1])) ELSE None
           results == advanced_filter_search(store, vector, category,
                                             meaning_keyword, limit, raised)
       IN  /\ IF NoSearchParameter(query, category, meaning_keyword)
              THEN Responds(req, HttpError(400), <<>>)
              ELSE Responds(req,
                            HttpOk([filters |-> [query |-> query,
                                                 category |-> category,
                                                 meaning_keyword |-> meaning_keyword],
                                    total_results |-> Len(results),
                                    results |-> results]),
                            (IF Truthy(query) THEN <<"get_vector", "search">>
                             ELSE <<"scroll">>))
           /\ UNCHANGED store

\* round(total / n, 2), in 1/100
Average(total, n) == ((total * 1000) \div n + 5) \div 10

\* lines 257-286
GetCategoryStatistics ==
    \E raised \in BOOLEAN :
       LET categories == get_all_categories(store, raised)
           total_words == SumSeq([i \in 1..Len(categories) |->
                                     categories[i].word_count])
       IN  /\ Responds([handler |-> "category_stats", raised |-> raised],
                       IF categories = <<>>
                       THEN HttpOk([total_categories |-> 0,
                                    total_categorized_words |-> 0,
                                    average_words_per_category |-> 0,
                                    top_categories |-> <<>>,
                                    statistics |-> <<>>])
                       ELSE HttpOk([total_categories |-> Len(categories),
                                    total_categorized_words |-> total_words,
                                    average_words_per_category |->
                                        Average(total_words, Len(categories)),
                                    top_categories |-> Take(categories, TopCategories),
                                    statistics |->
                                        <<categories[1], categories[Len(categories)]>>]),
                       <<"scroll">>)
           /\ UNCHANGED store

\* the response is sent and the service waits for the next request
ServeNext ==
    /\ pc = "responded"
    /\ pc' = "idle"
    /\ request' = None
    /\ response' = None
    /\ calls' = <<>>
    /\ UNCHANGED store
    /\ HandlerFrame

NextService ==
    \/ AddWords
    \/ SearchWord
    \/ SearchByMeaning
    \/ HybridSearchEndpoint
    \/ ListAllCategories
    \/ GetWordsInCategory
    \/ SearchWithinCategory
    \/ AdvancedSearch
    \/ GetCategoryStatistics
    \/ ServeNext

SpecService == InitService /\ [][NextService]_vars

\* the stores whose records differ in their labels only
StatisticsStores ==
    UNION { { [i \in 1..n |-> Record(<<"a", "b">>, ls[i])] : ls \in [1..n -> Labelled] }
            : n \in 0..MaxListed }

\* the service waits for a listing or a statistics request
InitStatistics ==
    /\ pc = "idle"
    /\ words = <<>>
    /\ vectors = <<>>
    /\ clusters = <<>>
    /\ TitlingIdle
    /\ store \in StatisticsStores
    /\ stats = ZeroStats
    /\ cat_pos = 0
    /\ word_pos = 0
    /\ run = 0
    /\ fault_log = <<>>
    /\ first_run = None
    /\ ServiceIdle
    /\ ScanIdle

NextStatistics ==
    \/ ListAllCategories
    \/ GetCategoryStatistics
    \/ ServeNext

SpecStatistics == InitStatistics /\ [][NextStatistics]_vars

(***************************************************************************)
(* The job as a whole.                                                     *)
(***************************************************************************)

\* C11: when the Fetch stage finds an empty population, main stops there:
\* nothing is clustered, no titling request is sent, no snapshot file is
\* written, no record is looked up or patched.
C11_EmptyPopulationStopsAfterFetch ==
    store = <<>> =>
        /\ pc \in {"fetch", "returned_none", "type_error"}
        /\ clusters = <<>>
        /\ cluster_pos = 0 /\ responses = <<>> /\ titles = <<>>
        /\ categorized_clusters = <<>>
        /\ snapshot_file = None
        /\ fault_log[1] = <<>> /\ stats = ZeroStats

C11_Witness ==
    /\ store = <<>>
    /\ words = <<>>
    /\ pc = "returned_none"

\* C12: the job started from its entry point on an empty store ends in a
\* normal final state, not in an unhandled exception.
C12_EmptyStoreEndsCleanly ==
    store = <<>> => pc # "type_error"

\* the position of a state of main in the order Fetch, Cluster, Title,
\* Persist, Propagate, done; 7 is a run that ended early
StageOf(p) ==
    CASE p = "fetch" -> 1
      [] p = "cluster" -> 2
      [] p \in {"title", "call"} -> 3
      [] p = "persist" -> 4
      [] p = "update" -> 5
      [] p \in {"updated", "returned", "exit"} -> 6
      [] OTHER -> 7

\* C13: main runs Fetch, Cluster, Title, Persist, Propagate in this order:
\* the snapshot file is written only after every cluster has a title, no
\* record is looked up or patched before the file is written, and a word that
\* fails in Propagate leaves the file and the store as they were.
C13_StagesRunInOrder ==
    /\ [](snapshot_file # None =>
             /\ StageOf(pc) \in {5, 6}
             /\ cluster_pos = Len(clusters)
             /\ Len(titles) = Len(clusters)
             /\ snapshot_file = Some(categorized_clusters))
    /\ []((fault_log[1] # <<>> \/ stats # ZeroStats) => snapshot_file # None)
    /\ [][/\ StageOf(pc') \in {StageOf(pc), StageOf(pc) + 1, 7}
          /\ store' # store => snapshot_file # None
          /\ snapshot_file # None => snapshot_file' = snapshot_file
          /\ stats'.total_failed > stats.total_failed =>
                store' = store /\ snapshot_file' = snapshot_file]_vars

C13_Witness ==
    /\ pc = "returned"
    /\ snapshot_file = Some(categorized_clusters)
    /\ stats.total_failed > 0
    /\ stats.total_updated > 0

\* C14: after a full run of main in which no backend call raised,
\* get_all_categories lists one entry per cluster, with the cluster's title and
\* word_count equal to the size of the cluster, and the counts sum to the
\* number of stored records.
C14_ListingMatchesClusters ==
    (pc = "returned" /\ Raises(fault_log[1]) = 0) =>
        LET listing == get_all_categories(store, FALSE)
        IN  /\ Len(listing) = Len(clusters)
            /\ \A i \in 1..Len(clusters) :
                  \E j \in 1..Len(listing) :
                     /\ listing[j].category = titles[i]
                     /\ listing[j].word_count = Len(clusters[i].val)
            /\ SumSeq([j \in 1..Len(listing) |-> listing[j].word_count]) = Len(store)

(***************************************************************************)
(* The service.                                                            *)
(***************************************************************************)

\* a handler has answered the request req
Answered(handler) ==
    /\ pc = "responded"
    /\ request # None
    /\ request[1].handler = handler

\* a text parameter that was not given or was given empty
Absent(text) == text = None \/ text = Some(<<>>)

\* the category values that stored records carry
StoredCategories == {store[i].category[1] : i \in {k \in 1..Len(store) : store[k].category # None}}

\* C15: the listing of get_all_categories has exactly one entry per distinct
\* category value carried by a stored record, its word_count is the number of
\* records that carry the value, the entries are ordered by non-increasing
\* word_count, and records without category appear in no entry.
C15_ListingCountsEveryCategory ==
    (Answered("categories") /\ ~request[1].raised) =>
        LET listing == response[1].body.categories
        IN  /\ Len(listing) = Cardinality(StoredCategories)
            /\ \A value \in StoredCategories :
                  \E j \in 1..Len(listing) :
                     /\ listing[j].category = value
                     /\ listing[j].word_count =
                           Cardinality({i \in 1..Len(store) :
                                           store[i].category = Some(value)})
            /\ \A j \in 1..(Len(listing) - 1) :
                  listing[j].word_count >= listing[j + 1].word_count

\* C16: advanced_search without query, category and meaning keyword answers
\* 400 and calls neither the embedding nor the store.
C16_NoParameterIsRejected ==
    (/\ Answered("advanced_search")
     /\ Absent(request[1].query)
     /\ Absent(request[1].category)
     /\ Absent(request[1].meaning_keyword)) =>
        /\ response[1].status = 400
        /\ calls = <<>>

C16_Witness ==
    /\ Answered("advanced_search")
    /\ request[1].query = None
    /\ request[1].category = None
    /\ request[1].meaning_keyword = None
    /\ response[1].status = 400
    /\ store # <<>>

\* the records of the store whose category is the given one, in scroll order
InCategory(category) == SelectSeq(store, LAMBDA rec : rec.category = category)

\* C17: advanced_search with a category C only answers a list without scores
\* of at most limit records, all of category C, taken by a filtered scan and
\* without any embedding call.
C17_CategoryOnlyIsFilteredScan ==
    (/\ Answered("advanced_search")
     /\ ~Absent(request[1].category)
     /\ Absent(request[1].query)
     /\ Absent(request[1].meaning_keyword)) =>
        LET results == response[1].body.results
            expected == Take(InCategory(request[1].category), request[1].limit)
        IN  /\ response[1].status = 200
            /\ calls = <<"scroll">>
            /\ Len(results) <= request[1].limit
            /\ \A i \in 1..Len(results) :
                  /\ results[i].score = None
                  /\ results[i].category = request[1].category
            /\ ~request[1].raised =>
                  /\ Len(results) = Len(expected)
                  /\ \A i \in 1..Len(results) : results[i].word = expected[i].word

C17_Witness ==
    /\ Answered("advanced_search")
    /\ ~Absent(request[1].category)
    /\ request[1].query = None
    /\ request[1].meaning_keyword = None
    /\ Len(response[1].body.results) = 1
    /\ Len(store) = MaxRecords
    /\ store[1].category # request[1].category

\* the read handlers of the query layer
QueryLayerReads ==
    {"categories", "category", "search_in_category", "advanced_search",
     "category_stats"}

\* the list a query-layer answer carries
ResultList(handler, body) ==
    CASE handler = "categories" -> body.categories
      [] handler = "category" -> body.words
      [] handler = "category_stats" -> body.top_categories
      [] OTHER -> body.results

\* C18: a query-layer read whose backend call fails answers an empty result
\* and raises no error to its caller.
C18_ReadsAnswerEmptyOnFailure ==
    (/\ pc = "responded"
     /\ request[1].handler \in QueryLayerReads
     /\ request[1].raised
     /\ request[1].handler = "advanced_search" =>
           ~NoSearchParameter(request[1].query, request[1].category,
                              request[1].meaning_keyword)) =>
        /\ response[1].status = 200
        /\ ResultList(request[1].handler, response[1].body) = <<>>

\* C19: when the backend search fails, search_word, search_by_meaning and
\* hybrid_search_endpoint answer an empty list, not an error.
C19_SearchesAnswerEmptyOnFailure ==
    (/\ pc = "responded"
     /\ request[1].handler \in {"search_word", "search_by_meaning", "hybrid_search"}
     /\ request[1].raised) =>
        /\ response[1].status = 200
        /\ ~response[1].null
        /\ response[1].body = <<>>

\* C20: add_words stores the word's payload under a new record and reports
\* success, and when the upsert fails it answers with an error and does not
\* report the word as added.
C20_FailedInsertIsReported ==
    Answered("add_words") =>
        IF request[1].raised
        THEN response[1].status # 200
        ELSE /\ response[1].status = 200
             /\ \E i \in 1..Len(store) :
                   store[i] = Record(request[1].word,
                                     [category |-> None, cluster_id |-> None])

\* the number of records that carry the category value
CountOf(value) == Cardinality({i \in 1..Len(store) : store[i].category = Some(value)})

\* the category values the listing has an entry for
ListedValues == {value \in StoredCategories : value # <<>>}

\* C21: get_category_statistics answers without error; when no record carries
\* a category all its fields are zero or empty; otherwise
\* total_categorized_words is the sum of the listed counts, largest_category
\* is a listed entry of maximal count and smallest_category one of minimal
\* count.
C21_StatisticsOfTheListing ==
    Answered("category_stats") =>
        LET body == response[1].body
        IN  /\ response[1].status = 200
            /\ (StoredCategories = {} \/ request[1].raised) =>
                  /\ body.total_categories = 0
                  /\ body.total_categorized_words = 0
                  /\ body.average_words_per_category = 0
                  /\ body.top_categories = <<>>
                  /\ body.statistics = <<>>
            /\ (ListedValues # {} /\ ~request[1].raised) =>
                  /\ body.total_categories = Cardinality(ListedValues)
                  /\ body.total_categorized_words =
                        Cardinality({i \in 1..Len(store) :
                                        store[i].category # None
                                        /\ store[i].category[1] \in ListedValues})
                  /\ \A k \in 1..2 :
                        /\ body.statistics[k].category \in ListedValues
                        /\ body.statistics[k].word_count =
                              CountOf(body.statistics[k].category)
                  /\ \A value \in ListedValues :
                        /\ CountOf(value) <= body.statistics[1].word_count
                        /\ CountOf(value) >= body.statistics[2].word_count

C21_Witness ==
    /\ Answered("category_stats")
    /\ ~request[1].raised
    /\ Len(response[1].body.statistics) = 2
    /\ response[1].body.statistics[1].word_count >
          response[1].body.statistics[2].word_count
    /\ store[1].category = Some(response[1].body.statistics[2].category)

(***************************************************************************)
(* Propagation, record by record.                                          *)
(***************************************************************************)

\* what propagation must leave alone in a record
Untouched(rec) ==
    <<rec.id, rec.vector, rec.word, rec.meaning, rec.synonyms, rec.antonyms,
      rec.examples>>

\* C22: every step of update_words_with_categories keeps the records and
\* their order, and of each record the id, the vector, the word, the meaning,
\* the synonyms, the antonyms and the examples; only category and cluster_id
\* may change.
C22_PropagationPatchesLabelsOnly ==
    [][/\ Len(store') = Len(store)
       /\ \A i \in 1..Len(store) : Untouched(store'[i]) = Untouched(store[i])]_vars

C22_Witness ==
    /\ pc = "updated"
    /\ stats.total_updated > 0
    /\ \E i \in 1..Len(store) :
          /\ store[i].category = Some(PropTitles[1])
          /\ store[i].meaning = MeaningOf(store[i].word)

\* the record is the first one of the scan that has its word
IsFirstOfItsWord(st, i) == \A j \in 1..(i - 1) : st[j].word # st[i].word

\* C24: a word lookup patches at most one record, the first one of the scan
\* that has the word; a record that shares its word with an earlier record is
\* never modified, however often the word occurs in the snapshot.
C24_OnlyFirstMatchIsPatched ==
    /\ [][\A i \in 1..Len(store) :
             store'[i] # store[i] =>
                /\ pc = "update" /\ word_pos < Len(CurrentWords)
                /\ store[i].word = CurrentWords[word_pos + 1]
                /\ IsFirstOfItsWord(store, i)]_vars
    /\ [](\A i \in 1..Len(store) :
             ~IsFirstOfItsWord(store, i) =>
                \/ store[i].category = None /\ store[i].cluster_id = None
                \/ store[i].category = Some(OldTitle)
                   /\ store[i].cluster_id = Some(NumClusters))

C24_Witness ==
    /\ pc = "updated"
    /\ Len(store) = 2
    /\ store[1].word = store[2].word
    /\ store[1].category = Some(PropTitles[2])
    /\ store[2].category = None
    /\ \A e \in 1..Len(categorized_clusters) :
          \E j \in 1..Len(categorized_clusters[e].val.all_words) :
             categorized_clusters[e].val.all_words[j] = store[1].word
    /\ stats.total_updated >= 2

(***************************************************************************)
(* The fetch.                                                              *)
(***************************************************************************)

\* C25: fetch_all_words_from_qdrant terminates, for every store and every
\* batch size, and returns every stored record exactly once, in scroll order,
\* the i-th word and the i-th vector being those of the i-th record; while it
\* pages, what it has collected is a prefix of the store.
C25_FetchReturnsEveryRecordOnce ==
    /\ <>(pc = "fetched")
    /\ [](/\ Len(words) = Len(vectors)
          /\ Len(words) <= Len(store)
          /\ \A i \in 1..Len(words) :
                words[i] = store[i].word /\ vectors[i] = store[i].vector
          /\ pc = "fetched" => Len(words) = Len(store))

C25_Witness ==
    /\ pc = "fetched"
    /\ Len(store) = MaxRecords
    /\ batch_size = 1
    /\ Len(words) = Len(store)
    /\ store[1].word = store[2].word
    /\ store[1].vector # store[2].vector

(***************************************************************************)
(* The snapshot entries.                                                   *)
(***************************************************************************)

\* the members of the cluster an entry was built from
MembersOf(entry) == DictGet(clusters, entry.cluster_id)

\* total_words, all_words and sample_words of an entry agree with the
\* cluster: the count, the members in ascending distance, a prefix
EntryListsCluster(entry) ==
    /\ entry.total_words = Len(entry.all_words)
    /\ Len(entry.all_words) = Len(MembersOf(entry))
    /\ \A i \in 1..Len(entry.all_words) :
          entry.all_words[i] = MembersOf(entry)[i].word
    /\ \A i \in 1..(Len(MembersOf(entry)) - 1) :
          MembersOf(entry)[i].distance <= MembersOf(entry)[i + 1].distance
    /\ Len(entry.sample_words) <= Len(entry.all_words)
    /\ entry.sample_words = Take(entry.all_words, Len(entry.sample_words))

\* C26 as stated: every snapshot entry is consistent with its cluster, and
\* representative_words is the list of the TopN closest members, the words
\* given to the titling client.
C26_EntryHoldsTheTitlingWords ==
    \A e \in 1..Len(categorized_clusters) :
        LET entry == categorized_clusters[e].val
        IN  /\ EntryListsCluster(entry)
            /\ entry.representative_words = Take(entry.all_words, TopN)

\* C26: every snapshot entry is consistent with its cluster, and
\* representative_words is the list of the first RepresentativeN of the TopN
\* closest members given to the titling client.
C26_EntryHoldsFirstOfTheTitlingWords ==
    \A e \in 1..Len(categorized_clusters) :
        LET entry == categorized_clusters[e].val
        IN  /\ EntryListsCluster(entry)
            /\ entry.representative_words =
                  Take(Take(entry.all_words, TopN), RepresentativeN)

C26_Witness ==
    /\ pc = "persist"
    /\ Len(categorized_clusters) = NumClusters
    /\ categorized_clusters[1].val.total_words = 2
    /\ Len(categorized_clusters[1].val.representative_words) = RepresentativeN
    /\ MembersOf(categorized_clusters[1].val)[1].distance <
          MembersOf(categorized_clusters[1].val)[2].distance

(***************************************************************************)
(* Propagation beside the service.                                         *)
(***************************************************************************)

\* a pair of labels is no label at all, the pair an earlier run gave, or the
\* title and the cluster_id of one entry of the snapshot
PairOfOneEntry(category, cluster_id) ==
    \/ category = None /\ cluster_id = None
    \/ category = Some(OldTitle) /\ cluster_id = Some(NumClusters)
    \/ \E e \in 1..Len(categorized_clusters) :
          /\ category = Some(categorized_clusters[e].key)
          /\ cluster_id = Some(categorized_clusters[e].val.cluster_id)

\* C23: however one propagation run is interleaved with inserts and scans,
\* every record has at every moment no labels or both, the pair being that of
\* one snapshot entry of this run or of an earlier one, and every scan sees
\* such pairs only.
C23_LabelsComeInPairs ==
    /\ \A i \in 1..Len(store) : PairOfOneEntry(store[i].category, store[i].cluster_id)
    /\ response # None =>
          \A seen \in response[1] : PairOfOneEntry(seen.category, seen.cluster_id)

C23_Witness ==
    /\ pc = "patch"
    /\ response # None
    /\ response[1] = {[category |-> Some(OldTitle), cluster_id |-> Some(NumClusters)]}
    /\ Len(store) = 2
    /\ store[1].category = None
    /\ store[2].category = Some(PropTitles[1])
    /\ store[2].cluster_id = Some(0)
====
